---- MODULE Spec2Model ----
(***************************************************************************)
(* Zeitgeist chat client: the optimistic send / snapshot reconciliation    *)
(* flow of src/src/screens/ChatScreen.tsx, with the parts of               *)
(* ErrorHandler (retry alert) and MessageActions (retry from the action    *)
(* sheet) that call back into it.                                          *)
(*                                                                         *)
(* A text is represented by the number of characters that survive trim()   *)
(* (field n) and the number of leading/trailing white-space characters     *)
(* (field pad); String.length is n + pad and trim() drops the padding.     *)
(* A React callback runs on the values its render captured; the captured   *)
(* values are carried in closure records.                                  *)
(***************************************************************************)
EXTENDS Integers, Sequences, FiniteSets, TLC

\* ---------------------------------------------------------------- constants
MAX_LENGTH == 500
MIN_LENGTH == 1
MESSAGE_BATCH_SIZE == 50

\* ------------------------------------------------------------------- bounds
MaxPad == 1
MaxSends == 2
MaxOther == 1
MaxRetryTimers == 1
\* sendMessage invocations followed where sends overlap
MaxConcurrentSends == 3
\* sendMessage invocations followed where the screen comes and goes
MaxListenerSends == 1
\* auth-state changes followed
MaxAuthEvents == 4

NULL == "null"
\* data.timestamp of a document whose serverTimestamp() is not resolved yet
NoTimestamp == 0
Me == "u1"
Other == "u2"

\* -------------------------------------------------------------------- texts
Text(n, pad) == [n |-> n, pad |-> pad]
EmptyText == Text(0, 0)
Length(t) == t.n + t.pad
trim(t) == Text(t.n, 0)
\* no text
NoText == Text(-1, 0)

TextLens == {0, MIN_LENGTH, MAX_LENGTH, MAX_LENGTH + 1}
AllTexts == {Text(n, p) : n \in TextLens, p \in 0..MaxPad}
\* what the TextInput hands to onChangeText: maxLength caps the raw length
TypedTexts == {t \in AllTexts : Length(t) <= MAX_LENGTH}

\* ------------------------------------------------------------ pure helpers
\* Array.prototype.reverse
Reverse(s) == [i \in 1..Len(s) |-> s[Len(s) + 1 - i]]

tempIdOf(t) == [kind |-> "temp", n |-> t]
docIdOf(k) == [kind |-> "doc", n |-> k]

VARIABLES
    messages,        \* useState<Message[]>: the rendered list
    newMessage,      \* useState: content of the input
    loading,         \* useState: loading flag
    sending,         \* useState: sending flag
    selectedMessage, \* useState: message chosen by long press, or NULL
    showActions,     \* useState: action sheet visible
    user,            \* useAuth().user
    isConnected,     \* useNetwork().isConnected
    now,             \* the latest reading of Date.now() (0: none yet)
    calls,           \* the sendMessage invocations that passed the guard
    alerts,          \* alerts on screen
    retryTimers,     \* setTimeout(() => sendMessage(), 100) of handleRetryMessage:
                     \* the closure to run, and the entry the retry is for
    store,           \* committed documents of collection "messages", by timestamp
    snapPending,     \* the listener has a snapshot to deliver
    issued,          \* texts handed to addDoc so far
    rejected,        \* the input text on which sendMessage last returned early
    mounted,         \* a ChatScreen instance is on the navigation stack
    isNearBottom,    \* useState: the list is scrolled near its end
    route,           \* userId of the route "UserPage" the screen was opened with
    sub,             \* the subscription the listener effect opened last
    activeSubs,      \* subscriptions opened by the screen that still listen
    late,            \* a callback in flight for a subscription left behind
    attempts,        \* RateLimit.attempts: Map key -> {count, lastAttempt}
    clock,           \* Date.now() as RateLimit reads it, in ms
    limited,         \* what checkLimit returned last ("none": not called yet)
    localLoading,    \* AuthScreen useState: a login call is awaited
    loginUsername,   \* the username the awaited login call was made with
    authAlert,       \* the alert AuthScreen showed last ("none": none yet)
    tried,           \* bookkeeping of the model: per account, the run of
                     \* login calls made without a success since the last
                     \* pause of more than the window
    authState,       \* auth.currentUser: the uid Firebase Auth is signed in with, or NULL
    fetches,         \* auth-state callbacks of AuthProvider that await getDoc
    authEvents,      \* the auth-state changes so far
    pvMounted,       \* a PhoneVerificationScreen instance is on the navigation stack
    timer,           \* useState(60): seconds until resend
    canResend,       \* useState(false)
    intervalOn,      \* the setInterval of the timer effect has not been cleared
    code,            \* useState(""): the digits in the code field
    verifying,       \* useState(false)
    pvAlert,         \* the alert PhoneVerificationScreen showed last ("none": none yet)
    vpc,             \* the await verifyCode is at ("idle": not running)
    steps,           \* the awaits of the running verifyCode call that resolved, in order
    verifyCalls,     \* the verifyCode calls so far
    verifyResult,    \* success of the value verifyCode returned last ("none": none yet)
    accountCreated,  \* createUserWithEmailAndPassword created the account of the username
    docWritten,      \* setDoc wrote users/{uid}
    searchQuery,     \* useState(""): the text of the search field
    searchResults,   \* useState([]): the query whose users are listed (NoQuery: none)
    searching,       \* useState(false)
    hasSearched,     \* useState(false)
    searchTimers,    \* the setTimeout calls of handleSearchInput not fired yet, oldest first
    searchCalls,     \* the searchUsers calls that await getDocs
    keystrokes       \* the changes of the search field so far

\* the chat screen and its backend
chatVars == <<messages, newMessage, loading, sending, selectedMessage, showActions,
              user, isConnected, now, calls, alerts, retryTimers, store,
              snapPending, issued, rejected, mounted, isNearBottom, route, sub,
              activeSubs, late>>

\* RateLimit and the login form of AuthScreen
rateVars == <<attempts, clock, limited, localLoading, loginUsername, authAlert,
              tried>>

\* Firebase Auth and the callbacks of AuthProvider
authVars == <<authState, fetches, authEvents>>

\* the chat screen and its backend without the signed-in user
chatButUser == <<messages, newMessage, loading, sending, selectedMessage,
                 showActions, isConnected, now, calls, alerts, retryTimers, store,
                 snapPending, issued, rejected, mounted, isNearBottom, route, sub,
                 activeSubs, late>>

\* PhoneVerificationScreen and the verifyCode call it awaits
phoneVars == <<pvMounted, timer, canResend, intervalOn, code, verifying, pvAlert, vpc, steps, verifyCalls, verifyResult, accountCreated, docWritten>>

\* UserSearchScreen
searchVars == <<searchQuery, searchResults, searching, hasSearched, searchTimers, searchCalls, keystrokes>>

\* the parts of the app beside the chat screen
utilVars == <<rateVars, authVars, phoneVars, searchVars>>

vars == <<chatVars, utilVars>>

\* the screen instance and its route
lifeVars == <<mounted, isNearBottom, route>>

\* the subscriptions of the listener effect
subVars == <<sub, activeSubs, late>>

\* --------------------------------------------------------------- messages
\* interface Message; cid is bookkeeping of the model: the sendMessage
\* invocation the entry stems from (0: none, -1: another client)
Message(id, text, userId, status, cid) ==
    [id |-> id, text |-> text, userId |-> userId, status |-> status, cid |-> cid]

MapSeq(s, f(_)) == [i \in 1..Len(s) |-> f(s[i])]

\* the null of useState<Message | null> and of Array.find
NoMessage == Message([kind |-> "none", n |-> 0], EmptyText, NULL, "none", 0)

\* variant of the filter that drops nothing
filterOutNone(prev, id) == prev

\* prev.filter((msg) => msg.id !== id)
filterOut(prev, id) == SelectSeq(prev, LAMBDA m : m.id # id)

\* variant of the map that promotes the entry in place
markSent(prev, id) ==
    MapSeq(prev, LAMBDA m : IF m.id = id THEN [m EXCEPT !.status = "sent"] ELSE m)

\* prev.map((msg) => msg.id === id ? { ...msg, status: "failed" } : msg)
markFailed(prev, id) ==
    MapSeq(prev, LAMBDA m : IF m.id = id THEN [m EXCEPT !.status = "failed"] ELSE m)

\* ------------------------------------------------------------- validation
\* variants of isMessageValid with one comparison changed
isMessageValidShort(t) ==
    /\ Length(trim(t)) >= MIN_LENGTH
    /\ Length(t) < MAX_LENGTH

isMessageValidNoMax(t) == Length(trim(t)) >= MIN_LENGTH

isMessageValid(t) ==
    /\ Length(trim(t)) >= MIN_LENGTH
    /\ Length(t) <= MAX_LENGTH

\* the values a render of ChatScreen hands to its sendMessage callback
Closure(text, snd, conn, usr) ==
    [newMessage |-> text, sending |-> snd, isConnected |-> conn, user |-> usr]

CurrentClosure == Closure(newMessage, sending, isConnected, user)

\* negation of the early-return condition of sendMessage
SendGuard(c) ==
    /\ isMessageValid(c.newMessage)
    /\ c.user # NULL
    /\ ~c.sending
    /\ c.isConnected

\* canSend of MessageInput
canSend == Length(trim(newMessage)) > 0 /\ ~sending /\ isConnected

\* ------------------------------------------------------------ the backend
\* cid names the sendMessage invocation that wrote the document (0: none);
\* page is bookkeeping of the model too: the page the writer was viewing (the
\* document itself carries no page, and the collection path names none)
Doc(id, text, userId, ts, cid, page) ==
    [id |-> id, text |-> text, userId |-> userId, timestamp |-> ts, cid |-> cid,
     page |-> page]

\* the pages (userId of the route "UserPage")
Pages == {Me, Other}

SeedDoc(i) == Doc(i, Text(MIN_LENGTH, 0), Other, i, 0, Me)
SeedStore(k) == [i \in 1..k |-> SeedDoc(i)]
SeedCounts == {MESSAGE_BATCH_SIZE - 1}

\* documents written by addDoc and not yet acknowledged: serverTimestamp()
\* is still unresolved, so data.timestamp reads null in the local view
PendingDocs ==
    LET idx == SelectSeq([i \in 1..Len(calls) |-> i], LAMBDA i : calls[i].pc = "writing")
    IN  MapSeq(idx, LAMBDA i :
            Doc(0, calls[i].text, calls[i].user, NoTimestamp, i, calls[i].page))

\* the listener's view of the collection, ascending by timestamp (an
\* unresolved server timestamp sorts after every committed one)
LocalDocs == store \o PendingDocs

orderByDesc(docs) == Reverse(docs)

limitToLast(docs, k) ==
    IF Len(docs) <= k THEN docs ELSE SubSeq(docs, Len(docs) - k + 1, Len(docs))

messagesQuery == limitToLast(orderByDesc(LocalDocs), MESSAGE_BATCH_SIZE)

\* variant of the callback that appends the 'sending' entries of the list
sortedMessagesKeepPending ==
    LET withTs == SelectSeq(messagesQuery, LAMBDA d : d.timestamp # NoTimestamp)
        messagesData == MapSeq(withTs,
            LAMBDA d : Message(docIdOf(d.id), d.text, d.userId, "sent", d.cid))
    IN  Reverse(messagesData) \o SelectSeq(messages, LAMBDA m : m.status = "sending")

\* variant of the callback that puts the 'sending' entries of the list first
sortedMessagesPendingFirst ==
    LET withTs == SelectSeq(messagesQuery, LAMBDA d : d.timestamp # NoTimestamp)
        messagesData == MapSeq(withTs,
            LAMBDA d : Message(docIdOf(d.id), d.text, d.userId, "sent", d.cid))
    IN  SelectSeq(messages, LAMBDA m : m.status = "sending") \o Reverse(messagesData)

\* variant of the callback without the reverse()
sortedMessagesUnreversed ==
    LET withTs == SelectSeq(messagesQuery, LAMBDA d : d.timestamp # NoTimestamp)
    IN  MapSeq(withTs,
            LAMBDA d : Message(docIdOf(d.id), d.text, d.userId, "sent", d.cid))

\* body of the onSnapshot success callback up to setMessages
sortedMessages ==
    LET withTs == SelectSeq(messagesQuery, LAMBDA d : d.timestamp # NoTimestamp)
        messagesData == MapSeq(withTs,
            LAMBDA d : Message(docIdOf(d.id), d.text, d.userId, "sent", d.cid))
    IN  Reverse(messagesData)

\* --------------------------------------------------------------- UI state
\* the list and the input are rendered, and no alert or sheet covers them
ScreenReady == mounted /\ ~loading /\ alerts = {} /\ ~showActions

\* -------------------------------------------------------------- RateLimit
\* RateLimit.checkLimit(rateLimitKey, 5, 300000) of handleLogin
LOGIN_MAX_ATTEMPTS == 5
LOGIN_WINDOW_MS == 300000
\* maxAge of RateLimit.cleanup
CLEANUP_MAX_AGE == 300000
\* the readings of Date.now() followed: whole minutes up to MaxClock
MinuteMs == 60000
MaxClock == 420000

\* a typed username: a name, typed in capitals or not, with pad blanks around
Username(name, upper, pad) == [name |-> name, upper |-> upper, pad |-> pad]

Usernames ==
    {Username("bob", FALSE, 0), Username("bob", TRUE, 0), Username("bob", FALSE, 1)}

\* String.trim and String.toLowerCase on a typed username
trimUsername(u) == [u EXCEPT !.pad = 0]
toLowerCase(u) == [u EXCEPT !.upper = FALSE]

\* InputSanitizer.sanitizeUsername: trim, toLowerCase; the typed names hold
\* no character the pattern removes and are shorter than the maximum
sanitizeUsername(u) == toLowerCase(trimUsername(u))

\* `login_${username.trim()}`
rateLimitKey(u) == [prefix |-> "login_", name |-> trimUsername(u)]

Keys == {rateLimitKey(u) : u \in Usernames}

\* the account a login call signs in to: login(sanitizedUsername, password)
Accounts == {sanitizeUsername(u) : u \in Usernames}

\* no entry for the key in the Map
NoRecord == [count |-> 0, lastAttempt |-> 0]

\* variant of checkLimit that lets one more attempt through
checkLimitOneMore(att, key, maxAttempts, windowMs, t) ==
    LET record == att[key]
    IN  IF record = NoRecord \/ t - record.lastAttempt > windowMs
        THEN [limited |-> FALSE,
              attempts |-> [att EXCEPT ![key] = [count |-> 1, lastAttempt |-> t]]]
        ELSE IF record.count > maxAttempts
        THEN [limited |-> TRUE, attempts |-> att]
        ELSE [limited |-> FALSE,
              attempts |-> [att EXCEPT ![key] =
                               [count |-> record.count + 1, lastAttempt |-> t]]]

\* RateLimit.checkLimit at time t: what it returns and the Map it leaves
checkLimit(att, key, maxAttempts, windowMs, t) ==
    LET record == att[key]
    IN  IF record = NoRecord \/ t - record.lastAttempt > windowMs
        THEN [limited |-> FALSE,
              attempts |-> [att EXCEPT ![key] = [count |-> 1, lastAttempt |-> t]]]
        ELSE IF record.count >= maxAttempts
        THEN [limited |-> TRUE, attempts |-> att]
        ELSE [limited |-> FALSE,
              attempts |-> [att EXCEPT ![key] =
                               [count |-> record.count + 1, lastAttempt |-> t]]]

\* RateLimit.resetLimit
resetLimit(att, key) == [att EXCEPT ![key] = NoRecord]

\* RateLimit.cleanup at time t
cleanup(att, maxAge, t) ==
    [k \in DOMAIN att |->
        IF att[k] # NoRecord /\ t - att[k].lastAttempt > maxAge
        THEN NoRecord
        ELSE att[k]]

\* the value checkLimit returned, as the model keeps it
Returned(b) == IF b THEN "true" ELSE "false"

\* the run of login calls of one account before any was made
NoTries == [n |-> 0, last |-> 0]

RateInit ==
    /\ attempts = [k \in Keys |-> NoRecord]
    /\ clock = 0
    /\ limited = "none"
    /\ localLoading = FALSE
    /\ loginUsername = Username("", FALSE, 0)
    /\ authAlert = "none"
    /\ tried = [a \in Accounts |-> NoTries]

\* AuthProvider before Firebase Auth reported a state
AuthInit ==
    /\ authState = NULL
    /\ fetches = {}
    /\ authEvents = 0

\* ------------------------------------------------- PhoneVerificationScreen
\* useState(60) of the resend timer
TIMER_START == 60
\* the length of a verification code
CODE_LENGTH == 6
\* verifyCode calls followed
MaxVerifyCalls == 2

\* the numbers of digits typed into the code field that are followed
CodeLengths == {0, CODE_LENGTH - 1, CODE_LENGTH}

\* the awaits of verifyCode in the order of its code
VerifyAwaits == <<"signInWithCredential", "signOut", "createUserWithEmailAndPassword",
                  "updateProfile", "setDoc">>

\* variant of the updater that stops one tick late
tickLate(prev) ==
    IF prev < 1
    THEN [timer |-> 0, canResend |-> TRUE, cleared |-> TRUE]
    ELSE [timer |-> prev - 1, canResend |-> FALSE, cleared |-> FALSE]

\* the updater of setTimer in the interval callback: the timer it returns,
\* whether it calls setCanResend(true) and whether it clears the interval
tick(prev) ==
    IF prev <= 1
    THEN [timer |-> 0, canResend |-> TRUE, cleared |-> TRUE]
    ELSE [timer |-> prev - 1, canResend |-> FALSE, cleared |-> FALSE]

\* the screen after its mount: useState initial values, interval set
PhoneInit ==
    /\ pvMounted = TRUE
    /\ timer = TIMER_START
    /\ canResend = FALSE
    /\ intervalOn = TRUE
    /\ code = 0
    /\ verifying = FALSE
    /\ pvAlert = "none"
    /\ vpc = "idle"
    /\ steps = <<>>
    /\ verifyCalls = 0
    /\ verifyResult = "none"
    /\ accountCreated = FALSE
    /\ docWritten = FALSE

\* --------------------------------------------------------- UserSearchScreen
\* the shortest text handleSearchInput searches for
SEARCH_MIN_LENGTH == 2
\* the longest text typed, and the changes of the field followed
MaxQueryLen == 3
MaxKeystrokes == 4

\* a text of the search field: the first n characters of one username, in
\* lower case
Query(n) == [len |-> n]
NoQuery == Query(0)

\* the texts one keystroke away from q: a character more or less
OneKeyFrom(q) ==
    {Query(n) : n \in {q.len - 1, q.len + 1} \cap (0..MaxQueryLen)}

SearchInit ==
    /\ searchQuery = NoQuery
    /\ searchResults = NoQuery
    /\ searching = FALSE
    /\ hasSearched = FALSE
    /\ searchTimers = <<>>
    /\ searchCalls = {}
    /\ keystrokes = 0

UtilInit == RateInit /\ AuthInit /\ PhoneInit /\ SearchInit

ChatInit ==
    /\ messages = <<>>
    /\ newMessage = EmptyText
    /\ loading = TRUE
    /\ sending = FALSE
    /\ selectedMessage = NoMessage
    /\ showActions = FALSE
    /\ user = Me
    /\ isConnected = TRUE
    /\ now = 0
    /\ calls = <<>>
    /\ alerts = {}
    /\ retryTimers = <<>>
    /\ \E k \in SeedCounts : store = SeedStore(k)
    /\ snapPending = TRUE
    /\ issued = {}
    /\ rejected = NoText
    /\ mounted = TRUE
    /\ isNearBottom = TRUE
    /\ route = Me
    /\ sub = "active"
    /\ activeSubs = 1
    /\ late = "none"

Init == ChatInit /\ UtilInit

\* ------------------------------------------------------------ sendMessage
\* Date.now(): a later millisecond than the previous reading; the same
\* millisecond is possible only while the call that took the previous
\* reading has not had an answer from the backend
DateNow ==
    IF now = 0 THEN {1}
    ELSE IF \E i \in 1..Len(calls) :
                calls[i].tempId = tempIdOf(now) /\ calls[i].pc \in {"haptic", "writing"}
         THEN {now, now + 1}
         ELSE {now + 1}

\* sendMessage run on closure c up to its first await; prev and input are
\* the list and the input text as left by the state updates the same
\* handler queued before the call
sendMessage(c, prev, input, others) ==
    \/ /\ ~SendGuard(c)
       /\ alerts' = IF ~c.isConnected
                    THEN others \cup {[kind |-> "no_connection", cid |-> 0]}
                    ELSE others
       /\ messages' = prev
       /\ newMessage' = input
       /\ rejected' = c.newMessage
       /\ UNCHANGED <<utilVars, sending, calls, now>>
    \/ /\ SendGuard(c)
       /\ \E t \in DateNow :
            LET messageText == trim(c.newMessage)
                tempId == tempIdOf(t)
                tempMessage == Message(tempId, messageText, c.user, "sending", Len(calls) + 1)
            IN  /\ now' = t
                /\ messages' = Append(prev, tempMessage)
                /\ calls' = Append(calls, [tempId |-> tempId, text |-> messageText,
                                           raw |-> c.newMessage, user |-> c.user,
                                           page |-> route, pc |-> "haptic"])
       /\ rejected' = rejected
       /\ newMessage' = EmptyText
       /\ sending' = TRUE
       /\ alerts' = others

\* onChangeText={setNewMessage}; the input is editable={!sending && isConnected}
TypeText(texts) ==
    /\ ScreenReady /\ ~sending /\ isConnected
    /\ \E t \in texts : t # newMessage /\ newMessage' = t
    /\ UNCHANGED <<utilVars, lifeVars, subVars, messages, loading, sending, selectedMessage, showActions, user,
                   isConnected, now, calls, alerts, retryTimers, store,
                   snapPending, issued, rejected>>

\* the input with maxLength={characterCount.max}
ChangeText == TypeText(TypedTexts)

\* the input when the native length cap does not hold the text back
ChangeTextAny == TypeText(AllTexts)

\* send button / return key of MessageInput, while fewer than k invocations
\* have been followed
PressSendUpTo(k) ==
    /\ ScreenReady /\ canSend
    /\ Len(calls) < k
    /\ sendMessage(CurrentClosure, messages, newMessage, alerts)
    /\ UNCHANGED <<utilVars, lifeVars, subVars, loading, selectedMessage, showActions, user, isConnected,
                   retryTimers, store, snapPending, issued>>

PressSend == PressSendUpTo(MaxSends)

\* await Haptics.impactAsync resolves; addDoc is called
IssueWrite(i) ==
    /\ calls[i].pc = "haptic"
    /\ calls' = [calls EXCEPT ![i].pc = "writing"]
    /\ issued' = issued \cup {calls[i].text}
    /\ snapPending' = TRUE
    /\ UNCHANGED <<utilVars, lifeVars, subVars, messages, newMessage, loading, sending, selectedMessage,
                   showActions, user, isConnected, now, alerts, retryTimers, store,
                   rejected>>

\* the backend accepts the write
ServerCommit(i) ==
    /\ calls[i].pc = "writing"
    /\ isConnected
    /\ LET k == Len(store) + 1
       IN  store' = Append(store, Doc(k, calls[i].text, calls[i].user, k, i,
                                     calls[i].page))
    /\ calls' = [calls EXCEPT ![i].pc = "committed"]
    /\ snapPending' = TRUE
    /\ UNCHANGED <<utilVars, lifeVars, subVars, messages, newMessage, loading, sending, selectedMessage,
                   showActions, user, isConnected, now, alerts, retryTimers, issued, rejected>>

\* the backend refuses the write
ServerReject(i) ==
    /\ calls[i].pc = "writing"
    /\ isConnected
    /\ calls' = [calls EXCEPT ![i].pc = "rejected"]
    /\ snapPending' = TRUE
    /\ UNCHANGED <<utilVars, lifeVars, subVars, messages, newMessage, loading, sending, selectedMessage,
                   showActions, user, isConnected, now, alerts, retryTimers,
                   store, issued, rejected>>

\* continuation of sendMessage after await addDoc resolved, with finally
WriteSucceeded(i) ==
    /\ calls[i].pc = "committed"
    /\ messages' = filterOut(messages, calls[i].tempId)
    /\ sending' = FALSE
    /\ calls' = [calls EXCEPT ![i].pc = "done"]
    /\ UNCHANGED <<utilVars, lifeVars, subVars, newMessage, loading, selectedMessage, showActions, user,
                   isConnected, now, alerts, retryTimers, store, snapPending, issued, rejected>>

\* catch block of sendMessage, with finally
WriteFailed(i) ==
    /\ calls[i].pc = "rejected"
    /\ messages' = markFailed(messages, calls[i].tempId)
    /\ alerts' = alerts \cup {[kind |-> "send_failed", cid |-> i]}
    /\ sending' = FALSE
    /\ calls' = [calls EXCEPT ![i].pc = "failed"]
    /\ UNCHANGED <<utilVars, lifeVars, subVars, newMessage, loading, selectedMessage, showActions, user,
                   isConnected, now, retryTimers, store, snapPending, issued, rejected>>

\* onSnapshot success callback
Deliver ==
    /\ mounted /\ sub = "active"
    /\ snapPending
    /\ user # NULL
    /\ messages' = sortedMessages
    /\ loading' = FALSE
    /\ snapPending' = FALSE
    /\ UNCHANGED <<utilVars, lifeVars, subVars, newMessage, sending, selectedMessage, showActions, user,
                   isConnected, now, calls, alerts, retryTimers, store, issued, rejected>>

\* Cancel of the retry alert, OK of the "No Connection" alert
DismissAlert(a) ==
    /\ alerts' = alerts \ {a}
    /\ UNCHANGED <<utilVars, lifeVars, subVars, messages, newMessage, loading, sending, selectedMessage,
                   showActions, user, isConnected, now, calls, retryTimers,
                   store, snapPending, issued, rejected>>

\* Retry of the "Failed to Send Message" alert: the onRetry callback of the
\* catch block; its sendMessage is the callback the failed call ran as, so
\* it runs on the values that call captured
RetryClosure(a) == Closure(calls[a.cid].raw, FALSE, TRUE, calls[a.cid].user)

AlertRetryUpTo(a, k) ==
    /\ a.kind = "send_failed"
    /\ Len(calls) < k
    /\ sendMessage(RetryClosure(a), filterOut(messages, calls[a.cid].tempId),
                   calls[a.cid].text, alerts \ {a})
    /\ UNCHANGED <<utilVars, lifeVars, subVars, loading, selectedMessage, showActions, user, isConnected,
                   retryTimers, store, snapPending, issued>>

AlertRetry(a) == AlertRetryUpTo(a, MaxSends)

\* long press on an entry of the list; the presses followed are those on a
\* failed entry, whose sheet offers "Retry Sending"
handleLongPress(i) ==
    /\ ScreenReady
    /\ messages[i].status = "failed"
    /\ selectedMessage' = messages[i]
    /\ showActions' = TRUE
    /\ UNCHANGED <<utilVars, lifeVars, subVars, messages, newMessage, loading, sending, user, isConnected, now,
                   calls, alerts, retryTimers, store, snapPending, issued, rejected>>

\* backdrop / Cancel of the action sheet
CloseActions ==
    /\ mounted /\ showActions /\ ~loading /\ alerts = {}
    /\ showActions' = FALSE
    /\ UNCHANGED <<utilVars, lifeVars, subVars, messages, newMessage, loading, sending, selectedMessage, user,
                   isConnected, now, calls, alerts, retryTimers, store,
                   snapPending, issued, rejected>>

\* messages.find((msg) => msg.id === messageId)
findById(msgs, id) ==
    LET hits == SelectSeq(msgs, LAMBDA m : m.id = id)
    IN  IF hits = <<>> THEN NoMessage ELSE Head(hits)

\* "Retry Sending" of the action sheet: MessageActions.handleRetry calls
\* onRetry = handleRetryMessage(selectedMessage.id), then onClose
handleRetryMessage ==
    /\ mounted /\ showActions /\ ~loading /\ alerts = {}
    /\ selectedMessage # NoMessage
    /\ selectedMessage.status = "failed"
    /\ Len(retryTimers) < MaxRetryTimers
    /\ LET failedMessage == findById(messages, selectedMessage.id)
       IN  IF failedMessage # NoMessage
           THEN /\ newMessage' = failedMessage.text
                /\ messages' = filterOut(messages, selectedMessage.id)
                /\ retryTimers' = Append(retryTimers,
                        [closure |-> CurrentClosure, failed |-> failedMessage])
           ELSE UNCHANGED <<newMessage, messages, retryTimers>>
    /\ showActions' = FALSE
    /\ UNCHANGED <<utilVars, lifeVars, subVars, loading, sending, selectedMessage, user, isConnected, now,
                   calls, alerts, store, snapPending, issued, rejected>>

\* the 100 ms timer of handleRetryMessage fires: sendMessage as captured
\* by the render in which Retry was pressed
RetryTimerFireUpTo(k) ==
    /\ retryTimers # <<>>
    /\ Len(calls) < k \/ ~SendGuard(Head(retryTimers).closure)
    /\ sendMessage(Head(retryTimers).closure, messages, newMessage, alerts)
    /\ retryTimers' = Tail(retryTimers)
    /\ UNCHANGED <<utilVars, lifeVars, subVars, loading, selectedMessage, showActions, user, isConnected,
                   store, snapPending, issued>>

RetryTimerFire == RetryTimerFireUpTo(MaxSends)

\* another client, viewing its own page, has a message committed
OtherUserWrite ==
    /\ isConnected
    /\ Len(SelectSeq(store, LAMBDA d : d.cid = -1)) < MaxOther
    /\ LET k == Len(store) + 1
       IN  store' = Append(store, Doc(k, Text(MIN_LENGTH, 0), Other, k, -1, Other))
    /\ snapPending' = TRUE
    /\ UNCHANGED <<utilVars, lifeVars, subVars, messages, newMessage, loading, sending, selectedMessage,
                   showActions, user, isConnected, now, calls, alerts,
                   retryTimers, issued, rejected>>

\* ----------------------------------------------------- the listener effect
\* the unsubscribe function onSnapshot returned, applied to a subscription
\* in state st: it stops an active listener and does nothing otherwise
unsubscribe(st) == IF st = "active" THEN "released" ELSE st

\* variant of the cleanup that leaves the subscription as it is
effectCleanupNothing(st) == st

\* cleanup of the listener effect: return unsubscribe
effectCleanup(st) == unsubscribe(st)

\* the number of listeners that stop when a subscription goes from st to st2
Stopped(st, st2) == IF st = "active" /\ st2 # "active" THEN 1 ELSE 0

\* a callback the subscription st had in flight when the effect left it as
\* st2: a listener is not called after its unsubscribe ran
LeftBehind(st, st2) ==
    IF st = "active" /\ snapPending
    THEN (IF st2 = "active" THEN "live" ELSE "muted")
    ELSE late

\* the listener effect runs again for user usr: the cleanup of the previous
\* run, then its body
ListenerEffect(usr) ==
    LET left == effectCleanup(sub)
    IN  /\ late' = LeftBehind(sub, left)
        /\ IF usr # NULL
           THEN /\ sub' = "active"
                /\ activeSubs' = activeSubs - Stopped(sub, left) + 1
                /\ loading' = TRUE
                /\ snapPending' = TRUE
           ELSE /\ sub' = left
                /\ activeSubs' = activeSubs - Stopped(sub, left)
                /\ loading' = loading
                /\ snapPending' = FALSE

\* setNetworkState of NetworkProvider with isConnected c: the provider
\* renders again, retryConnection is a new function, and a mounted chat
\* screen runs its listener effect again
setNetworkState(c) ==
    /\ isConnected' = c
    /\ IF mounted
       THEN ListenerEffect(user)
       ELSE UNCHANGED <<sub, activeSubs, late, loading, snapPending>>
    /\ UNCHANGED <<utilVars, lifeVars, messages, newMessage, sending, selectedMessage,
                   showActions, user, now, calls, retryTimers, store, issued,
                   rejected>>

\* NetInfo reports a state with isConnected c
NetInfoEvent(c) == setNetworkState(c) /\ UNCHANGED alerts

\* NetInfo reports a change; the listener effect depends on isConnected, so
\* it is cleaned up and run again: setLoading(true) and a new onSnapshot
SetConnected == NetInfoEvent(~isConnected)

\* a sendMessage invocation still running: its continuation after addDoc
\* has not run
InFlight(i) == calls[i].pc \in {"haptic", "writing", "committed", "rejected"}

\* no send is in flight and no retry timer is set
Quiescent == retryTimers = <<>> /\ \A i \in 1..Len(calls) : ~InFlight(i)

\* a callback of a subscription the effect left behind arrives
LateCallback ==
    /\ late \in {"muted", "live"}
    /\ late' = IF late = "live" THEN "applied" ELSE "dropped"
    /\ IF late = "live" /\ mounted
       THEN messages' = sortedMessages /\ loading' = FALSE
       ELSE UNCHANGED <<messages, loading>>
    /\ UNCHANGED <<utilVars, lifeVars, newMessage, sending, selectedMessage, showActions,
                   user, isConnected, now, calls, alerts, retryTimers, store,
                   snapPending, issued, rejected, sub, activeSubs>>

\* onSnapshot error callback: the backend ends the subscription
SubscriptionError ==
    /\ mounted /\ sub = "active"
    /\ sub' = "failed"
    /\ activeSubs' = activeSubs - 1
    /\ snapPending' = FALSE
    /\ loading' = FALSE
    /\ alerts' = IF isConnected
                 THEN alerts \cup {[kind |-> "load_failed", cid |-> 0]}
                 ELSE alerts
    /\ UNCHANGED <<utilVars, lifeVars, messages, newMessage, sending, selectedMessage,
                   showActions, user, isConnected, now, calls, retryTimers, store,
                   issued, rejected, late>>

\* Retry of the "Failed to Load Messages" alert: retryConnection fetches
\* the network state and sets it
ListenerAlertRetry(a) ==
    /\ a.kind = "load_failed"
    /\ alerts' = alerts \ {a}
    /\ \E c \in BOOLEAN : setNetworkState(c)

\* handleScroll moves isNearBottom across the threshold; the listener
\* effect depends on it
Scroll ==
    /\ ScreenReady
    /\ isNearBottom' = ~isNearBottom
    /\ ListenerEffect(user)
    /\ UNCHANGED <<utilVars, mounted, route, messages, newMessage, sending, selectedMessage,
                   showActions, user, isConnected, now, calls, alerts,
                   retryTimers, store, issued, rejected>>

\* the screen leaves the navigation stack and the signed-in user becomes u:
\* the cleanup of the listener effect, then the cleanup of the unmount effect,
\* which calls unsubscribeRef.current, the same unsubscribe function
LeaveScreen(u) ==
    /\ mounted /\ Quiescent
    /\ mounted' = FALSE
    /\ user' = u
    /\ LET left == effectCleanup(sub)
           gone == unsubscribe(left)
       IN  /\ sub' = gone
           /\ activeSubs' = activeSubs - Stopped(sub, left) - Stopped(left, gone)
           /\ late' = LeftBehind(sub, gone)
    /\ snapPending' = FALSE
    /\ UNCHANGED <<utilVars, isNearBottom, route, messages, newMessage, loading, sending,
                   selectedMessage, showActions, isConnected, now, calls, alerts,
                   retryTimers, store, issued, rejected>>

\* navigation away from the page
Unmount == LeaveScreen(user)

\* Logout of handleLogout: AppNavigator drops the screens of a signed-in user
SignOut == user # NULL /\ LeaveScreen(NULL)

\* a user signs in again
SignIn ==
    /\ user = NULL
    /\ user' = Me
    /\ UNCHANGED <<utilVars, lifeVars, subVars, messages, newMessage, loading, sending,
                   selectedMessage, showActions, isConnected, now, calls, alerts,
                   retryTimers, store, snapPending, issued, rejected>>

\* navigation.navigate("UserPage", {userId: p, ...}): a new ChatScreen
\* instance with its initial state, whose listener effect runs
Mount(p) ==
    /\ ~mounted /\ user # NULL
    /\ mounted' = TRUE
    /\ route' = p
    /\ isNearBottom' = TRUE
    /\ messages' = <<>>
    /\ newMessage' = EmptyText
    /\ loading' = TRUE
    /\ sending' = FALSE
    /\ selectedMessage' = NoMessage
    /\ showActions' = FALSE
    /\ sub' = "active"
    /\ activeSubs' = activeSubs + 1
    /\ snapPending' = TRUE
    /\ UNCHANGED <<utilVars, user, isConnected, now, calls, alerts, retryTimers, store,
                   issued, rejected, late>>

\* the steps of the screen around sendMessage other than its invocations
Completions ==
    \/ \E i \in 1..Len(calls) : IssueWrite(i)
    \/ \E i \in 1..Len(calls) : ServerCommit(i)
    \/ \E i \in 1..Len(calls) : ServerReject(i)
    \/ \E i \in 1..Len(calls) : WriteSucceeded(i)
    \/ \E i \in 1..Len(calls) : WriteFailed(i)
    \/ Deliver
    \/ \E a \in alerts : DismissAlert(a)
    \/ \E i \in 1..Len(messages) : handleLongPress(i)
    \/ CloseActions
    \/ handleRetryMessage

\* the invocations of sendMessage, while fewer than k have been followed
SendCalls(k) ==
    \/ PressSendUpTo(k)
    \/ \E a \in alerts : AlertRetryUpTo(a, k)
    \/ RetryTimerFireUpTo(k)

\* the steps of the screen that lead to, run in or follow sendMessage
SendPaths == SendCalls(MaxSends) \/ Completions

\* other clients and the network
Environment ==
    \/ OtherUserWrite
    \/ SetConnected

Next == ChangeText \/ SendPaths \/ Environment

Spec == Init /\ [][Next]_vars

\* the send paths of the screen fed by an input field that lets any text
\* through
NextAnyText == ChangeTextAny \/ SendPaths

SpecAnyText == Init /\ [][NextAnyText]_vars

\* the screen followed one invocation further, fed with one short text
ShortTexts == {Text(MIN_LENGTH, 0)}

ChangeTextShort == TypeText(ShortTexts)

NextConcurrent ==
    ChangeTextShort \/ SendCalls(MaxConcurrentSends) \/ Completions \/ Environment

SpecConcurrent == Init /\ [][NextConcurrent]_vars

\* the screen with its subscriptions, navigation and sign-out, followed for
\* one send at a time
Lifecycle ==
    \/ \E c \in BOOLEAN : NetInfoEvent(c)
    \/ LateCallback
    \/ SubscriptionError
    \/ \E a \in alerts : ListenerAlertRetry(a)
    \/ Scroll
    \/ Unmount
    \/ SignOut
    \/ SignIn
    \/ \E p \in Pages : Mount(p)

OneSend ==
    \/ ChangeTextShort
    \/ PressSendUpTo(MaxListenerSends)
    \/ \E i \in 1..Len(calls) : IssueWrite(i)
    \/ \E i \in 1..Len(calls) : ServerCommit(i)
    \/ \E i \in 1..Len(calls) : ServerReject(i)
    \/ \E i \in 1..Len(calls) : WriteSucceeded(i)
    \/ \E i \in 1..Len(calls) : WriteFailed(i)
    \/ Deliver
    \/ \E a \in alerts : DismissAlert(a)
    \/ OtherUserWrite

NextListener == Lifecycle \/ OneSend

SpecListener == Init /\ [][NextListener]_vars

\* ------------------------------------------------------------------ claims
\* the call conditions of C1 as seen by the invocation
ClaimedValid(c) ==
    /\ Length(trim(c.newMessage)) >= 1
    /\ Length(trim(c.newMessage)) <= 500
    /\ c.user # NULL
    /\ c.isConnected
    /\ ~c.sending

\* this step appended one 'sending' entry for closure c to the tail of prev
\* and opened an invocation whose write has not been issued
PendingInserted(prev, c) ==
    /\ Len(messages') = Len(prev) + 1
    /\ SubSeq(messages', 1, Len(prev)) = prev
    /\ LET m == messages'[Len(messages')]
       IN  /\ m.status = "sending"
           /\ m.id.kind = "temp"
           /\ m.text = trim(c.newMessage)
           /\ m.userId = c.user
    /\ Len(calls') = Len(calls) + 1
    /\ calls'[Len(calls')].pc = "haptic"
    /\ issued' = issued

\* C1: a sendMessage call with a text of trimmed length 1..500, a signed-in
\* user, a connection and no send in flight appends exactly one 'sending'
\* entry to the tail of the list in the calling step itself, when the write
\* is not yet issued, so before any continuation of that write
C1_SendInsertsPending ==
    [][ /\ (PressSend /\ ClaimedValid(CurrentClosure))
            => PendingInserted(messages, CurrentClosure)
        /\ (RetryTimerFire /\ ClaimedValid(Head(retryTimers).closure))
            => PendingInserted(messages, Head(retryTimers).closure)
        /\ \A a \in alerts :
            (AlertRetry(a) /\ ClaimedValid(RetryClosure(a)))
            => PendingInserted(filterOut(messages, calls[a.cid].tempId), RetryClosure(a))
      ]_vars

\* a text of the maximal length has just been sent: its entry is the tail
C1_Witness ==
    \E i \in 1..Len(calls) :
        /\ calls[i].pc = "haptic"
        /\ Length(calls[i].text) = MAX_LENGTH
        /\ messages # <<>>
        /\ messages[Len(messages)].cid = i
        /\ messages[Len(messages)].status = "sending"

ClaimedInvalid(t) == Length(trim(t)) = 0 \/ Length(t) > 500

NothingSent(prev) ==
    /\ messages' = prev
    /\ calls' = calls
    /\ issued' = issued

\* C2: a sendMessage call on a text that is empty after trimming or longer
\* than 500 characters leaves the list as it was and issues no write, and
\* no text of trimmed length 0 or above 500 is ever handed to addDoc
C2_InvalidTextNotSent ==
    /\ [](\A t \in issued : Length(trim(t)) >= 1 /\ Length(trim(t)) <= 500)
    /\ [][ /\ (PressSend /\ ClaimedInvalid(newMessage)) => NothingSent(messages)
           /\ (RetryTimerFire /\ ClaimedInvalid(Head(retryTimers).closure.newMessage))
               => NothingSent(messages)
           /\ \A a \in alerts :
               (AlertRetry(a) /\ ClaimedInvalid(calls[a.cid].raw))
               => NothingSent(filterOut(messages, calls[a.cid].tempId))
         ]_vars

\* sendMessage has returned early on a text of 501 characters, although a
\* user was signed in, the device connected and no send in flight
C2_Witness ==
    /\ Length(rejected) = MAX_LENGTH + 1
    /\ Length(trim(rejected)) = MAX_LENGTH + 1
    /\ user # NULL /\ isConnected /\ ~sending
    /\ messages = sortedMessages /\ calls = <<>> /\ issued = {}

\* ------------------------------------------------- snapshots and pending
\* the entries of a list that stem from sendMessage and not from a snapshot
LocalEntries(msgs) == SelectSeq(msgs, LAMBDA m : m.status # "sent")

\* the 'sending' entries of msgs whose invocation is still running
InFlightEntries(msgs) ==
    SelectSeq(msgs, LAMBDA m : m.status = "sending" /\ InFlight(m.cid))

\* C3: after a snapshot delivery the list is the delivered batch followed by
\* the locally originated entries it held before, and the 'sending' entry of
\* a send in flight is still in the list
C3_SnapshotKeepsPending ==
    [][ Deliver =>
          /\ messages' = sortedMessages \o LocalEntries(messages)
          /\ InFlightEntries(messages') = InFlightEntries(messages)
      ]_vars

\* the entry of invocation i after its write failed
FailedEntry(i) == Message(calls[i].tempId, calls[i].text, calls[i].user, "failed", i)

\* C4: when the write of a send fails, the list afterwards holds that send's
\* entry (same temporary id, text and author) with status 'failed', whatever
\* snapshots were delivered meanwhile, and the retry alert is on screen
C4_FailedWriteKeepsEntry ==
    [][ \A i \in 1..Len(calls) :
          WriteFailed(i) =>
            /\ \E k \in 1..Len(messages') : messages'[k] = FailedEntry(i)
            /\ [kind |-> "send_failed", cid |-> i] \in alerts'
      ]_vars

\* the step is a retry of the failed entry m by the user
RetryOf(m) ==
    \/ \E a \in alerts : a.cid = m.cid /\ AlertRetry(a)
    \/ selectedMessage.id = m.id /\ handleRetryMessage

\* C5: an entry with status 'failed' stays in the list, unchanged, in every
\* step that is not the user's retry of it
C5_FailedEntryStays ==
    [][ \A k \in 1..Len(messages) :
          messages[k].status = "failed" =>
            \/ \E j \in 1..Len(messages') : messages'[j] = messages[k]
            \/ RetryOf(messages[k])
      ]_vars

\* the 'sent' entries of a list
SentEntries(msgs) == {msgs[k] : k \in {j \in 1..Len(msgs) : msgs[j].status = "sent"}}

\* C6: the success continuation of a send leaves no entry with that send's
\* temporary id in the list, and a step that brings a new 'sent' entry into
\* the list is a snapshot delivery
C6_SuccessRemovesPending ==
    [][ /\ \A i \in 1..Len(calls) :
             WriteSucceeded(i) =>
               \A k \in 1..Len(messages') : messages'[k].id # calls[i].tempId
        /\ ~(SentEntries(messages') \subseteq SentEntries(messages)) => Deliver
      ]_vars

\* a write has succeeded and its continuation has run before any snapshot
\* showed the persisted message: the list holds neither version of it
C6_Witness ==
    \E i \in 1..Len(calls) :
        /\ calls[i].pc = "done"
        /\ \E k \in 1..Len(store) : store[k].cid = i
        /\ \A k \in 1..Len(messages) : messages[k].cid # i
        /\ messages # <<>>

\* the list shows the pending and the persisted version of invocation i
BothVersions(i) ==
    /\ \E k \in 1..Len(messages) : messages[k].cid = i /\ messages[k].status = "sending"
    /\ \E k \in 1..Len(messages) : messages[k].cid = i /\ messages[k].status = "sent"

\* C7: the list does not hold both the pending and the persisted entry of
\* one message in two consecutive states
C7_NoLastingDuplicate ==
    [][ \A i \in 1..Len(calls) : ~(BothVersions(i) /\ BothVersions(i)') ]_vars

\* the persisted message of a write was delivered before the success
\* continuation of the write has run
C7_Witness ==
    \E i \in 1..Len(calls) :
        /\ calls[i].pc = "committed"
        /\ \E k \in 1..Len(messages) : messages[k].cid = i /\ messages[k].status = "sent"

\* the entries of msgs that show invocation i
EntriesOf(msgs, i) == {k \in 1..Len(msgs) : msgs[k].cid = i}

\* C8: a snapshot delivered after the write of a send succeeded leaves
\* exactly one entry for that message, with status 'sent', and no entry
\* with the temporary id of the send
C8_DeliveredOnce ==
    [][ Deliver =>
          \A i \in 1..Len(calls) :
            calls[i].pc \in {"committed", "done"} =>
              /\ Cardinality(EntriesOf(messages', i)) = 1
              /\ \A k \in EntriesOf(messages', i) : messages'[k].status = "sent"
              /\ \A k \in 1..Len(messages') : messages'[k].id # calls[i].tempId
      ]_vars

\* this step left no entry f in the list and opened one invocation with the
\* text of f, whose 'sending' entry with another temporary id is the tail
Resent(f) ==
    /\ \A k \in 1..Len(messages') : messages'[k].id # f.id
    /\ Len(calls') = Len(calls) + 1
    /\ calls'[Len(calls')].text = f.text
    /\ calls'[Len(calls')].pc = "haptic"
    /\ messages' # <<>>
    /\ LET m == messages'[Len(messages')]
       IN  /\ m.status = "sending"
           /\ m.text = f.text
           /\ m.id.kind = "temp"
           /\ m.id # f.id
           /\ m.cid = Len(calls')

\* C9: a retry of a failed message, by the Retry button of the alert or by
\* "Retry Sending" of the action sheet (whose send runs when its timer
\* fires), removes the failed entry and sends its text again in a new
\* 'sending' entry with another temporary id
C9_RetryResends ==
    [][ /\ \A a \in alerts : AlertRetry(a) => Resent(FailedEntry(a.cid))
        /\ RetryTimerFire => Resent(Head(retryTimers).failed)
      ]_vars

\* ------------------------------------------------------- overlapping sends
\* the locally originated entries of msgs that stem from invocation i
OwnEntries(msgs, i) == SelectSeq(msgs, LAMBDA m : m.cid = i /\ m.status # "sent")

\* this step opened an invocation whose 'sending' entry is the tail of the
\* list and whose temporary id is not that of invocation i
OwnPendingBeside(i) ==
    /\ Len(calls') = Len(calls) + 1
    /\ calls'[Len(calls')].tempId # calls[i].tempId
    /\ messages' # <<>>
    /\ LET m == messages'[Len(messages')]
       IN  /\ m.cid = Len(calls')
           /\ m.status = "sending"
           /\ m.id = calls'[Len(calls')].tempId
    /\ OwnEntries(messages', i) = OwnEntries(messages, i)

\* the invocation has a text of trimmed length 1..500, a user and a connection
ValidCall(c) ==
    /\ Length(trim(c.newMessage)) >= 1
    /\ Length(trim(c.newMessage)) <= 500
    /\ c.user # NULL
    /\ c.isConnected

\* C10: a send call with a valid text made while the write of invocation i is in flight
\* creates its own 'sending' entry with a temporary id of its own, and while
\* two invocations are in flight the entry of each is removed or marked
\* failed by the continuation of its own write only
C10_ConcurrentSendsIndependent ==
    [][ \A i \in 1..Len(calls) :
          InFlight(i) =>
            /\ (PressSendUpTo(MaxConcurrentSends) /\ ValidCall(CurrentClosure))
                => OwnPendingBeside(i)
            /\ (RetryTimerFireUpTo(MaxConcurrentSends)
                    /\ ValidCall(Head(retryTimers).closure))
                => OwnPendingBeside(i)
            /\ \A a \in alerts :
                 (AlertRetryUpTo(a, MaxConcurrentSends) /\ ValidCall(RetryClosure(a)))
                 => OwnPendingBeside(i)
            /\ \A j \in 1..Len(calls) :
                 (j # i /\ InFlight(j) /\ OwnEntries(messages', i) # OwnEntries(messages, i))
                 => (WriteSucceeded(i) \/ WriteFailed(i))
      ]_vars

\* ------------------------------------------------------ order of the list
\* C11: in every state each locally originated entry ('sending' or
\* 'failed') of the list comes after every confirmed ('sent') entry
C11_LocalAfterConfirmed ==
    \A i \in 1..Len(messages) : \A j \in 1..Len(messages) :
        (messages[i].status # "sent" /\ messages[j].status = "sent") => j < i

\* the list holds confirmed entries, then a failed entry and the 'sending'
\* entry of a later send
C11_Witness ==
    /\ Len(messages) >= 3
    /\ messages[1].status = "sent"
    /\ messages[Len(messages) - 1].status = "failed"
    /\ messages[Len(messages)].status = "sending"

\* the confirmed part of a list
SentPart(msgs) == SelectSeq(msgs, LAMBDA m : m.status = "sent")

\* the entries of a confirmed list are in ascending creation time (the
\* document id of the model is the creation time)
Ascending(msgs) ==
    \A i \in 1..(Len(msgs) - 1) : msgs[i].id.n < msgs[i + 1].id.n

\* C12: a snapshot delivery makes the confirmed part of the list the
\* delivered batch, in ascending creation time, and no other step changes
\* the confirmed part: it is always the most recently delivered batch
C12_ConfirmedIsLastBatch ==
    [][ /\ Deliver => /\ SentPart(messages') = sortedMessages
                      /\ Ascending(sortedMessages)
        /\ SentPart(messages') # SentPart(messages) => Deliver
      ]_vars

\* a second, different batch has been applied: the list shows the message
\* another client added after the first delivery, as the newest entry
C12_Witness ==
    /\ Len(store) = MESSAGE_BATCH_SIZE
    /\ Len(SentPart(messages)) = MESSAGE_BATCH_SIZE
    /\ messages[Len(messages)].cid = -1
    /\ ~snapPending

\* ------------------------------------------------ subscription errors (C13, C14)
\* a step by which the user decides to load again: Retry of the load alert,
\* or opening the page anew
UserDecision ==
    \/ \E a \in alerts : ListenerAlertRetry(a)
    \/ \E p \in Pages : Mount(p)

\* C13: a subscription error leaves the list as it was and leaves no
\* subscription open, and after it the screen subscribes again only in a step
\* the user decided on
C13_ErrorNoResubscribe ==
    [][ /\ SubscriptionError => (messages' = messages /\ activeSubs' = 0)
        /\ (sub = "failed" /\ sub' = "active") => UserDecision ]_vars

\* the alert "Failed to Load Messages"
LoadAlert == [kind |-> "load_failed", cid |-> 0]

\* C14: every subscription error puts the load alert on the screen, whatever
\* the connectivity
C14_ErrorSurfaced == [][ SubscriptionError => LoadAlert \in alerts' ]_vars

\* ------------------------------------------------------- silent drops (C15)
\* a step that calls sendMessage: the send button, Retry of a failed-send
\* alert, or the timer set by handleRetryMessage
SendCall ==
    \/ PressSendUpTo(MaxConcurrentSends)
    \/ RetryTimerFireUpTo(MaxConcurrentSends)
    \/ \E a \in alerts : AlertRetryUpTo(a, MaxConcurrentSends)

\* the call appended a 'sending' entry of its own
CallInsertedPending ==
    /\ Len(calls') = Len(calls) + 1
    /\ \E k \in 1..Len(messages') :
         messages'[k].cid = Len(calls') /\ messages'[k].status = "sending"

\* the call left an error alert of its own on the screen
CallSurfacedError == \E al \in alerts' : al.kind = "no_connection"

\* C15: every call of sendMessage inserts a pending entry or surfaces an
\* error, also while another invocation is in flight
C15_NoSilentDrop == [][ SendCall => (CallInsertedPending \/ CallSurfacedError) ]_vars

\* ------------------------------------------- release of subscriptions (C16, C17)
\* C16: the only subscription of the screen that still listens is the one a
\* mounted screen holds: each one left by a re-run of the listener effect, by
\* sign-out or by unmount has been released, and the second release at
\* unmount takes nothing more away
C16_SubscriptionsReleased ==
    /\ activeSubs = (IF mounted /\ sub = "active" THEN 1 ELSE 0)
    /\ ~mounted => sub # "active"

\* the screen was unmounted while its subscription was active, after the
\* listener effect had run again
C16_Witness ==
    /\ ~mounted
    /\ sub = "released"
    /\ late # "none"
    /\ ~isNearBottom

C18_ScopedByPage ==
    mounted =>
        \A k \in 1..Len(messages) :
            messages[k].status = "sent" => store[messages[k].id.n].page = route

\* ------------------------------------------------------ query bound (C19)
\* the positions in store of the MESSAGE_BATCH_SIZE newest documents
NewestDocs ==
    {k \in 1..Len(store) : k > Len(store) - MESSAGE_BATCH_SIZE}

\* C19: each delivered batch consists of the 50 newest documents that have
\* a timestamp, so a document persisted before the delivery is part of it
C19_BatchIsNewest ==
    [][ Deliver =>
          {messages'[k].id.n : k \in 1..Len(messages')} = NewestDocs ]_vars

\* ------------------------------------------- life of a local entry (C20)
\* the local entries of invocation c in the list msgs
LocalOf(msgs, c) ==
    {msgs[k] : k \in {j \in 1..Len(msgs) : msgs[j].cid = c /\ msgs[j].id.kind = "temp"}}

\* the local entry m2 of invocation c after a step is new (the step is the
\* call c itself), or is an entry of before the step, unchanged or flipped
\* from 'sending' to 'failed'
LocalStep(c, m2) ==
    \/ /\ LocalOf(messages, c) = {}
       /\ Len(calls) = c - 1
       /\ m2.status = "sending"
    \/ \E m \in LocalOf(messages, c) :
         \/ m2 = m
         \/ m.status = "sending" /\ m2 = [m EXCEPT !.status = "failed"]

C21_DistinctIds ==
    \A i \in 1..Len(messages) : \A j \in 1..Len(messages) :
        messages[i].id = messages[j].id => i = j

\* ------------------------------------------------------ offline send (C22)
\* a step of the screen that calls sendMessage
SendCallStep ==
    \/ PressSend
    \/ RetryTimerFire
    \/ \E a \in alerts : AlertRetry(a)

\* C22: a sendMessage call made while isConnected is false adds no entry,
\* starts no write and raises the "No Connection" alert
C22_OfflineSendRefused ==
    [][ (~isConnected /\ SendCallStep) =>
          /\ Len(calls') = Len(calls)
          /\ Len(messages') <= Len(messages)
          /\ [kind |-> "no_connection", cid |-> 0] \in alerts' ]_vars

\* ------------------------------------------- RateLimit and the login form
\* the parts of the app beside RateLimit and the login form
notRate == <<chatVars, authVars, phoneVars, searchVars>>

\* the chat screen while nobody is signed in: AppNavigator shows AuthScreen
SignedOut ==
    /\ messages = <<>>
    /\ newMessage = EmptyText
    /\ loading = TRUE
    /\ sending = FALSE
    /\ selectedMessage = NoMessage
    /\ showActions = FALSE
    /\ user = NULL
    /\ isConnected = TRUE
    /\ now = 0
    /\ calls = <<>>
    /\ alerts = {}
    /\ retryTimers = <<>>
    /\ \E k \in SeedCounts : store = SeedStore(k)
    /\ snapPending = FALSE
    /\ issued = {}
    /\ rejected = NoText
    /\ mounted = FALSE
    /\ isNearBottom = TRUE
    /\ route = Me
    /\ sub = "none"
    /\ activeSubs = 0
    /\ late = "none"

SignedOutInit == SignedOut /\ UtilInit

\* a minute passes
Advance ==
    /\ clock + MinuteMs <= MaxClock
    /\ clock' = clock + MinuteMs
    /\ UNCHANGED <<attempts, limited, localLoading, loginUsername, authAlert, tried,
                   notRate>>

\* RateLimit.checkLimit(key, 5, 300000)
CheckLimit(key) ==
    LET r == checkLimit(attempts, key, LOGIN_MAX_ATTEMPTS, LOGIN_WINDOW_MS, clock)
    IN  /\ attempts' = r.attempts
        /\ limited' = Returned(r.limited)
        /\ UNCHANGED <<clock, localLoading, loginUsername, authAlert, tried, notRate>>

\* RateLimit.resetLimit(key)
ResetLimit(key) ==
    /\ attempts' = resetLimit(attempts, key)
    /\ UNCHANGED <<clock, limited, localLoading, loginUsername, authAlert, tried,
                   notRate>>

\* RateLimit.cleanup()
Cleanup ==
    /\ attempts' = cleanup(attempts, CLEANUP_MAX_AGE, clock)
    /\ UNCHANGED <<clock, limited, localLoading, loginUsername, authAlert, tried,
                   notRate>>

NextRateLimit ==
    \/ Advance
    \/ \E k \in Keys : CheckLimit(k)
    \/ \E k \in Keys : ResetLimit(k)
    \/ Cleanup

SpecRateLimit == SignedOutInit /\ [][NextRateLimit]_vars

\* one more login call for an account at time t, after the run r
OneMoreTry(r, t) ==
    IF r.n > 0 /\ t - r.last <= LOGIN_WINDOW_MS
    THEN [n |-> r.n + 1, last |-> t]
    ELSE [n |-> 1, last |-> t]

\* handleLogin with u in the username field, up to its await of login; the
\* submit button is disabled={isLoading || !isConnected || !isFormValid}, so
\* validateForm passes
handleLogin(u) ==
    /\ user = NULL
    /\ ~localLoading /\ isConnected
    /\ IF ~isConnected
       THEN /\ authAlert' = "No Connection"
            /\ UNCHANGED <<attempts, limited, localLoading, loginUsername, tried>>
       ELSE LET r == checkLimit(attempts, rateLimitKey(u), LOGIN_MAX_ATTEMPTS,
                                LOGIN_WINDOW_MS, clock)
                a == sanitizeUsername(u)
            IN  /\ attempts' = r.attempts
                /\ limited' = Returned(r.limited)
                /\ IF r.limited
                   THEN /\ authAlert' = "Too Many Attempts"
                        /\ UNCHANGED <<localLoading, loginUsername, tried>>
                   ELSE /\ localLoading' = TRUE
                        /\ loginUsername' = u
                        /\ tried' = [tried EXCEPT ![a] = OneMoreTry(tried[a], clock)]
                        /\ authAlert' = authAlert
    /\ UNCHANGED <<clock, notRate>>

\* login resolved with success: RateLimit.resetLimit(rateLimitKey); the form
\* is left as a later sign-out shows it again
LoginSucceeded ==
    /\ localLoading
    /\ attempts' = resetLimit(attempts, rateLimitKey(loginUsername))
    /\ tried' = [tried EXCEPT ![sanitizeUsername(loginUsername)] = NoTries]
    /\ localLoading' = FALSE
    /\ UNCHANGED <<clock, limited, loginUsername, authAlert, notRate>>

\* login resolved without success ("Login Failed") or threw ("Login Error")
LoginFailed(al) ==
    /\ localLoading
    /\ authAlert' = al
    /\ localLoading' = FALSE
    /\ UNCHANGED <<attempts, clock, limited, loginUsername, tried, notRate>>

NextLogin ==
    \/ Advance
    \/ \E u \in Usernames : handleLogin(u)
    \/ LoginSucceeded
    \/ \E al \in {"Login Failed", "Login Error"} : LoginFailed(al)

SpecLogin == SignedOutInit /\ [][NextLogin]_vars

Expired(k, age) == attempts[k] # NoRecord /\ clock - attempts[k].lastAttempt > age

\* C24: a checkLimit call that returns true changes no record; one for a key
\* with no record or an expired record sets count 1 and returns false; an
\* allowed call otherwise adds 1 to count, which never exceeds maxAttempts;
\* checkLimit and resetLimit leave the other keys alone and cleanup leaves
\* every record that is not expired
C24_RecordPerKey ==
    [][ /\ \A k \in Keys :
             CheckLimit(k) =>
               /\ limited' = "true" => attempts' = attempts
               /\ (attempts[k] = NoRecord \/ Expired(k, LOGIN_WINDOW_MS)) =>
                    /\ attempts'[k] = [count |-> 1, lastAttempt |-> clock]
                    /\ limited' = "false"
               /\ ( /\ limited' = "false"
                    /\ attempts[k] # NoRecord
                    /\ ~Expired(k, LOGIN_WINDOW_MS) ) =>
                    attempts'[k].count = attempts[k].count + 1
               /\ attempts'[k].count <= LOGIN_MAX_ATTEMPTS
               /\ \A k2 \in Keys \ {k} : attempts'[k2] = attempts[k2]
        /\ \A k \in Keys :
             ResetLimit(k) => \A k2 \in Keys \ {k} : attempts'[k2] = attempts[k2]
        /\ Cleanup =>
             \A k \in Keys : ~Expired(k, CLEANUP_MAX_AGE) => attempts'[k] = attempts[k]
      ]_vars

\* a call was refused for a key at its maximum while another key holds a
\* younger record below the maximum
C24_Witness ==
    /\ limited = "true"
    /\ \E k \in Keys : \E k2 \in Keys \ {k} :
         /\ attempts[k].count = LOGIN_MAX_ATTEMPTS
         /\ attempts[k2].count \in 1..(LOGIN_MAX_ATTEMPTS - 1)
         /\ attempts[k2].lastAttempt > attempts[k].lastAttempt

\* ------------------------------------------- one subscription at a time (C25)
\* C25: at most one subscription opened by the screen listens at any time,
\* and none while no user is signed in
C25_AtMostOneSubscription ==
    /\ activeSubs <= 1
    /\ user = NULL => activeSubs = 0

\* the listener effect ran again while its subscription was active, and
\* again one subscription listens
C25_Witness ==
    /\ mounted
    /\ user # NULL
    /\ activeSubs = 1
    /\ late = "muted"
    /\ ~isConnected

\* --------------------------------------------------- one write at a time (C26)
\* C26: at most one sendMessage invocation is in flight and at most one
\* entry of the list has status 'sending'
C26_OneWriteInFlight ==
    /\ Cardinality({i \in 1..Len(calls) : InFlight(i)}) <= 1
    /\ Cardinality({k \in 1..Len(messages) : messages[k].status = "sending"}) <= 1

\* ------------------------------------------------------------ AuthProvider
\* the parts of the app beside AuthProvider and the signed-in user
notAuth == <<chatButUser, rateVars, phoneVars, searchVars>>

\* the uids of Firebase users
Uids == {Me, Other}

\* onAuthStateChanged callback with Firebase user u, up to its await of
\* getDoc(doc(db, "users", u))
AuthSignedIn(u) ==
    /\ authEvents < MaxAuthEvents
    /\ authState # u
    /\ authState' = u
    /\ authEvents' = authEvents + 1
    /\ fetches' = fetches \cup {[uid |-> u, event |-> authEvents + 1]}
    /\ UNCHANGED <<user, notAuth>>

\* onAuthStateChanged callback with null: setUser(null)
AuthSignedOut ==
    /\ authEvents < MaxAuthEvents
    /\ authState # NULL
    /\ authState' = NULL
    /\ authEvents' = authEvents + 1
    /\ user' = NULL
    /\ UNCHANGED <<fetches, notAuth>>

\* the getDoc a callback awaits settles: with the document, without it or
\* with an error the callback calls setUser with id firebaseUser.uid
FetchSettled(f) ==
    /\ user' = f.uid
    /\ fetches' = fetches \ {f}
    /\ UNCHANGED <<authState, authEvents, notAuth>>

NextAuth ==
    \/ \E u \in Uids : AuthSignedIn(u)
    \/ AuthSignedOut
    \/ \E f \in fetches : FetchSettled(f)

SpecAuth == SignedOutInit /\ [][NextAuth]_vars

\* -------------------------------------------------- auth-state races (C27)
\* C27: once every callback has finished, the exposed user is the user of
\* the latest auth state: null when signed out, its uid otherwise
C27_UserIsLatestAuthState == fetches = {} => user = authState

\* ------------------------------------------------- PhoneVerificationScreen
\* the parts of the app beside PhoneVerificationScreen and verifyCode
notPhone == <<chatVars, rateVars, authVars, searchVars>>

\* the resend timer of the screen
timerVars == <<timer, canResend, intervalOn>>

\* the code field and the verifyCode call
verifyVars == <<code, verifying, pvAlert, vpc, steps, verifyCalls, verifyResult,
                accountCreated, docWritten>>

\* the interval callback runs: setTimer with the updater
Tick ==
    /\ intervalOn
    /\ LET r == tick(timer)
       IN  /\ timer' = r.timer
           /\ canResend' = (canResend \/ r.canResend)
           /\ intervalOn' = ~r.cleared
    /\ UNCHANGED <<pvMounted, verifyVars, notPhone>>

\* handleCodeChange with n digits typed; with 6 digits it calls
\* handleVerifyCode, which sets verifying and awaits verifyCode
handleCodeChange(n) ==
    /\ pvMounted /\ ~verifying
    /\ n # code
    /\ n = CODE_LENGTH => verifyCalls < MaxVerifyCalls
    /\ code' = n
    /\ IF n = CODE_LENGTH
       THEN /\ verifying' = TRUE
            /\ vpc' = VerifyAwaits[1]
            /\ steps' = <<>>
            /\ verifyCalls' = verifyCalls + 1
       ELSE UNCHANGED <<verifying, vpc, steps, verifyCalls>>
    /\ UNCHANGED <<pvMounted, timerVars, pvAlert, verifyResult, accountCreated,
                   docWritten, notPhone>>

\* the await after a in verifyCode
AwaitAfter(a) ==
    LET i == CHOOSE k \in 1..Len(VerifyAwaits) : VerifyAwaits[k] = a
    IN  VerifyAwaits[i + 1]

\* the call verifyCode awaits resolves; after setDoc verifyCode returns
\* {success: true} and handleVerifyCode sets verifying to false. An account
\* that exists makes createUserWithEmailAndPassword reject
VerifyResolved ==
    /\ vpc # "idle"
    /\ vpc = "createUserWithEmailAndPassword" => ~accountCreated
    /\ steps' = Append(steps, vpc)
    /\ accountCreated' = (accountCreated \/ vpc = "createUserWithEmailAndPassword")
    /\ docWritten' = (docWritten \/ vpc = "setDoc")
    /\ IF vpc = "setDoc"
       THEN /\ vpc' = "idle"
            /\ verifyResult' = "success"
            /\ verifying' = FALSE
       ELSE /\ vpc' = AwaitAfter(vpc)
            /\ UNCHANGED <<verifyResult, verifying>>
    /\ UNCHANGED <<pvMounted, timerVars, code, pvAlert, verifyCalls, notPhone>>

\* the call verifyCode awaits rejects: its catch returns {success: false},
\* and handleVerifyCode shows the error and clears the code
VerifyRejected ==
    /\ vpc # "idle"
    /\ vpc' = "idle"
    /\ verifyResult' = "failure"
    /\ pvAlert' = "Error"
    /\ code' = 0
    /\ verifying' = FALSE
    /\ UNCHANGED <<pvMounted, timerVars, steps, verifyCalls, accountCreated,
                   docWritten, notPhone>>

\* "Didn't get the code?", shown while canResend
handleResendCode ==
    /\ pvMounted /\ canResend
    /\ pvAlert' = "Resend Code"
    /\ UNCHANGED <<pvMounted, timerVars, code, verifying, vpc, steps, verifyCalls,
                   verifyResult, accountCreated, docWritten, notPhone>>

\* navigation.goBack(): the screen unmounts and the cleanup of the timer
\* effect clears the interval
goBack ==
    /\ pvMounted
    /\ pvMounted' = FALSE
    /\ intervalOn' = FALSE
    /\ UNCHANGED <<timer, canResend, verifyVars, notPhone>>

NextPhone ==
    \/ Tick
    \/ \E n \in CodeLengths : handleCodeChange(n)
    \/ VerifyResolved
    \/ VerifyRejected
    \/ handleResendCode
    \/ goBack

SpecPhone == SignedOutInit /\ [][NextPhone]_vars

\* the screen with an interval that keeps firing while it is set
SpecPhoneFair == SpecPhone /\ WF_vars(Tick)

\* ------------------------------------------------ order of verifyCode (C28)
\* C28: the account is created only after the credential sign-in and the
\* sign-out resolved, the document is written only after the account was
\* created, success is returned only after the five awaits resolved in
\* order, and when verifyCode returns success false no account has been
\* created
C28_VerifyCodeOrder ==
    [][ /\ (accountCreated' /\ ~accountCreated) =>
              steps = <<"signInWithCredential", "signOut">>
        /\ (docWritten' /\ ~docWritten) => accountCreated
        /\ (VerifyResolved /\ verifyResult' = "success" /\ vpc = "setDoc") =>
              steps' = VerifyAwaits
        /\ VerifyRejected => ~accountCreated' ]_vars

\* ---------------------------------------------------- resend countdown (C29)
\* C29: the timer starts at 60, a tick takes exactly 1 off and never below
\* 0, canResend is false while the timer is above 0, is true once the timer
\* is 0 and stays true, no tick changes the timer at 0 or after unmount, and
\* while the screen stays mounted the resend option becomes available
C29_ResendCountdown ==
    /\ timer = TIMER_START
    /\ [][ /\ Tick => (timer' = timer - 1 /\ timer' >= 0)
           /\ timer' # timer => (Tick /\ pvMounted /\ timer > 0)
           /\ canResend => canResend' ]_vars
    /\ [](canResend <=> timer = 0)
    /\ <>(canResend \/ ~pvMounted)

\* the countdown ran down to 0 on a mounted screen and the resend option
\* was used
C29_Witness ==
    /\ pvMounted
    /\ timer = 0
    /\ canResend
    /\ ~intervalOn
    /\ pvAlert = "Resend Code"

\* --------------------------------------------------------- UserSearchScreen
\* the parts of the app beside UserSearchScreen
notSearch == <<chatVars, rateVars, authVars, phoneVars>>

\* handleSearchInput(text): setSearchQuery and a 500 ms timer; the function
\* it returns is handed to onChangeText, which does not call it
handleSearchInput(text) ==
    /\ isConnected
    /\ keystrokes < MaxKeystrokes
    /\ keystrokes' = keystrokes + 1
    /\ searchQuery' = text
    /\ searchTimers' = Append(searchTimers, text)
    /\ UNCHANGED <<searchResults, searching, hasSearched, searchCalls, notSearch>>

\* a keystroke in the search field
TypeQuery == \E text \in OneKeyFrom(searchQuery) : handleSearchInput(text)

\* the clear button, shown while the field holds a text
ClearSearch ==
    /\ searchQuery.len > 0
    /\ searchQuery' = NoQuery
    /\ searchResults' = NoQuery
    /\ hasSearched' = FALSE
    /\ UNCHANGED <<searching, searchTimers, searchCalls, keystrokes, notSearch>>

\* the oldest timer fires, 500 ms after its keystroke: searchUsers(text) up
\* to its await of getDocs for a text of 2 characters or more (the texts
\* hold no blank and no character sanitizeUsername removes), otherwise the
\* results are emptied
SearchTimerFire ==
    /\ searchTimers # <<>>
    /\ LET text == Head(searchTimers)
       IN  IF text.len >= SEARCH_MIN_LENGTH
           THEN /\ IF isConnected
                   THEN /\ searching' = TRUE
                        /\ hasSearched' = TRUE
                        /\ searchCalls' = searchCalls \cup
                              {[text |-> text, key |-> keystrokes - Len(searchTimers) + 1]}
                   ELSE UNCHANGED <<searching, hasSearched, searchCalls>>
                /\ UNCHANGED searchResults
           ELSE /\ searchResults' = NoQuery
                /\ hasSearched' = FALSE
                /\ UNCHANGED <<searching, searchCalls>>
    /\ searchTimers' = Tail(searchTimers)
    /\ UNCHANGED <<searchQuery, keystrokes, notSearch>>

\* getDocs of a searchUsers call resolves: setSearchResults(users), and
\* finally setSearching(false)
SearchResolved(c) ==
    /\ searchResults' = c.text
    /\ searching' = FALSE
    /\ searchCalls' = searchCalls \ {c}
    /\ UNCHANGED <<searchQuery, hasSearched, searchTimers, keystrokes, notSearch>>

\* getDocs rejects: the error alert, and finally setSearching(false)
SearchRejected(c) ==
    /\ searching' = FALSE
    /\ searchCalls' = searchCalls \ {c}
    /\ UNCHANGED <<searchQuery, searchResults, hasSearched, searchTimers,
                   keystrokes, notSearch>>

NextSearch ==
    \/ TypeQuery
    \/ ClearSearch
    \/ SearchTimerFire
    \/ \E c \in searchCalls : SearchResolved(c)
    \/ \E c \in searchCalls : SearchRejected(c)

SpecSearch == Init /\ [][NextSearch]_vars

\* ------------------------------------------------------ search debounce (C30)
\* C30: a timer starts a search only for the text the field holds when it
\* fires, with no later keystroke waiting; and once no timer and no
\* response is outstanding, the users listed are those of the text in the
\* field, and none are listed for a text shorter than 2 characters
C30_SearchDebounced ==
    /\ [][ (SearchTimerFire /\ searchCalls' # searchCalls) =>
              (Len(searchTimers) = 1 /\ Head(searchTimers) = searchQuery) ]_vars
    /\ []( (searchTimers = <<>> /\ searchCalls = {}) =>
              /\ searchResults \in {NoQuery, searchQuery}
              /\ searchQuery.len < SEARCH_MIN_LENGTH => searchResults = NoQuery )

====
